---- MODULE Spec2Model ----
(***************************************************************************)
(* A model of the interactive Wordle solver of wordle.py: the word store   *)
(* (Wordle.reset), the prompt loop (Wordle.play / Wordle.prompt) and the   *)
(* feedback encoding and candidate filtering of Wordle.filter.             *)
(*                                                                         *)
(* Text is modelled as sequences of one-character strings, so that         *)
(* indexing, length and membership of characters are what Python's are.    *)
(***************************************************************************)
EXTENDS Integers, Sequences, FiniteSets

VARIABLES
    words,              \* Wordle._words: the candidate set
    state,              \* where the object is: "Constructed", "AwaitingGuess"
                        \* (input("> ")), "AwaitingVerdict" (input("? ")),
                        \* "Terminated" (play() has returned)
    word,               \* prompt()'s local `word` / filter()'s argument `word`
    out,                \* what the last step printed, in order
    filter_calls,       \* history: the number of filter() calls the last step made
    honest,             \* history: the loaded words against which every verdict
                        \* since the last load was the true Wordle score
    locked,             \* history: index -> the first letter marked 'g' there
                        \* since the last load
    contradicted,       \* history: a later verdict marked another letter 'g'
                        \* at an index that was already locked
    cycles,             \* history: the guesses filtered since the last load,
                        \* counted in the long game only
    fpc,                \* position inside a filter() call made directly on the
                        \* object: "idle", "called", "encoded", "returned",
                        \* "raised"
    validation_string,  \* filter()'s argument
    missing,            \* filter()'s local set
    members,            \* filter()'s local Counter
    pos_info,           \* filter()'s local dict
    before,             \* history: words when the current filter() call began
    calls               \* history: consecutive filter() calls with these arguments

vars == <<words, state, word, out, filter_calls, honest, locked, contradicted,
          cycles,
          fpc, validation_string, missing, members, pos_info, before, calls>>

-----------------------------------------------------------------------------
(* Bounds of the model *)

\* How many lines of the word list are read.
MaxLines == 10

\* How many times in a row filter() is called directly with the same arguments.
MaxCalls == 2

\* How far the guesses of one game are counted.
MaxCycles == 8

-----------------------------------------------------------------------------
(* Program constants *)

\* Wordle.__init__(word_len=5, ...)
word_len == 5

\* Wordle.__init__(..., max_guesses=6)
max_guesses == 6

\* Wordle.prompt(dump_threshold=25)
dump_threshold == 25

\* string.ascii_lowercase, in order
ascii_lowercase ==
    <<"a", "b", "c", "d", "e", "f", "g", "h", "i", "j", "k", "l", "m",
      "n", "o", "p", "q", "r", "s", "t", "u", "v", "w", "x", "y", "z">>

\* the characters str.strip() removes
Whitespace == {" ", "\t", "\n", "\r"}

-----------------------------------------------------------------------------
(* Python helpers *)

\* set(s) of a string s
CharSet(s) == {s[i] : i \in 1..Len(s)}

\* `c in s` for a one-character string c
Contains(s, c) == \E i \in 1..Len(s) : s[i] = c

\* collections.Counter(s)[c]
Count(s, c) == Cardinality({i \in 1..Len(s) : s[i] = c})

Min(a, b) == IF a <= b THEN a ELSE b

\* str.strip(): leading and trailing whitespace removed
RECURSIVE LStrip(_)
LStrip(s) ==
    IF s # <<>> /\ Head(s) \in Whitespace THEN LStrip(Tail(s)) ELSE s

RECURSIVE RStrip(_)
RStrip(s) ==
    IF s # <<>> /\ s[Len(s)] \in Whitespace
    THEN RStrip(SubSeq(s, 1, Len(s) - 1))
    ELSE s

Strip(s) == RStrip(LStrip(s))

\* len(set(s) - set(string.ascii_lowercase)) > 0
HasNonLowercase(s) == CharSet(s) \ CharSet(ascii_lowercase) # {}

-----------------------------------------------------------------------------
(* The word list ./wordle_words.txt, as the lines readlines() returns *)

WordFile ==
    << <<"c", "o", "a", "s", "t", "\n">>,
       <<"b", "a", "s", "i", "c", "\n">>,
       <<"s", "i", "s", "s", "y", "\n">>,
       <<"B", "o", "a", "r", "d", "\n">>,
       <<"c", "o", "u", "l", "d", "\n">>,
       <<"c", "a", "t", "\n">>,
       <<" ", "c", "r", "a", "n", "e", " ", "\n">>,
       <<"c", "a", "n", "'", "t", "\n">>,
       <<"s", "a", "s", "s", "y", "\n">>,
       <<"m", "e", "l", "t", "s", "\n">>,
       <<"b", "o", "a", "r", "d", "\n">>,
       <<"\n">>,
       <<"s", "t", "o", "i", "c">> >>

Lines == {WordFile[i] : i \in 1..Min(MaxLines, Len(WordFile))}

LoadWordsOfAnyLength ==
    {Strip(line) : line \in {l \in Lines : ~HasNonLowercase(Strip(l))}}

\* Wordle.reset: the words the file yields
LoadWords ==
    {Strip(line) : line \in
        {l \in Lines : /\ Len(Strip(l)) = word_len
                       /\ ~HasNonLowercase(Strip(l))}}

-----------------------------------------------------------------------------
(* Wordle.filter, first loop: the guess and its verdict string are encoded  *)
(* into missing (a set), members (a Counter) and pos_info (a dict from the  *)
(* 0-based index to "c" for 'g' and "-c" for 'y').                          *)

\* members[c] += 1 on a Counter
Increment(counter, c) ==
    [k \in DOMAIN counter \cup {c} |->
        IF k = c
        THEN (IF c \in DOMAIN counter THEN counter[c] ELSE 0) + 1
        ELSE counter[k]]

\* dict.setdefault(key, value)
SetDefault(dict, key, value) ==
    [k \in DOMAIN dict \cup {key} |->
        IF k \in DOMAIN dict THEN dict[k] ELSE value]

\* any([c in key for key in pos_info.values()])
SeenElsewhere(dict, c) == \E k \in DOMAIN dict : Contains(dict[k], c)

NoEncoding == [missing |-> {}, members |-> <<>>, pos_info |-> <<>>]

\* One iteration of `for idx, (c, t) in enumerate(zip(...))`
EncodeStep(enc, idx, c, t) ==
    IF t = "."
    THEN IF SeenElsewhere(enc.pos_info, c)
         THEN enc
         ELSE [enc EXCEPT !.missing = @ \cup {c}]
    ELSE IF t = "y"
    THEN [enc EXCEPT !.members = Increment(@, c),
                     !.pos_info = SetDefault(@, idx, <<"-", c>>)]
    ELSE [enc EXCEPT !.members = Increment(@, c),
                     !.pos_info = SetDefault(@, idx, <<c>>)]

RECURSIVE EncodeFrom(_, _, _, _)
EncodeFrom(enc, idx, w, v) ==
    IF idx >= Min(Len(w), Len(v))
    THEN enc
    ELSE EncodeFrom(EncodeStep(enc, idx, w[idx + 1], v[idx + 1]), idx + 1, w, v)

Encode(w, v) == EncodeFrom(NoEncoding, 0, w, v)

-----------------------------------------------------------------------------
(* Wordle.filter, second loop: which candidates are illegal *)

\* Variant: only an option holding every missing character is refused
ContainsAllMissing(option, enc) == enc.missing \subseteq CharSet(option)

\* `len(set(option) & missing) > 0`
ContainsMissing(option, enc) == CharSet(option) \cap enc.missing # {}

\* Variant: the test of a known position is inverted (`c == info`)
PositionBreaksInverted(option, idx, info) ==
    LET c == option[idx + 1] IN
    IF Contains(info, "-")
    THEN c = info[2]
    ELSE <<c>> = info

\* Variant: a known position is never tested (the `elif c != info` is lost)
PositionBreaksBansOnly(option, idx, info) ==
    LET c == option[idx + 1] IN
    IF Contains(info, "-")
    THEN c = info[2]
    ELSE FALSE

\* The body of `for idx, info in pos_info.items()` reaches a `break`
PositionBreaks(option, idx, info) ==
    LET c == option[idx + 1] IN
    IF Contains(info, "-")
    THEN c = info[2]
    ELSE <<c>> # info

\* Variant: the count of a known character is taken as exact (`!=` for `<`)
TooFewOrTooMany(option, enc) ==
    \E member_char \in DOMAIN enc.members :
        Count(option, member_char) # enc.members[member_char]

\* The `else` of the for loop: some known character is too rare
TooFew(option, enc) ==
    \E member_char \in DOMAIN enc.members :
        Count(option, member_char) < enc.members[member_char]

\* option is added to illegal_words
Illegal(option, enc) ==
    IF ContainsMissing(option, enc)
    THEN TRUE
    ELSE IF \E idx \in DOMAIN enc.pos_info :
                idx < Len(option) /\ PositionBreaks(option, idx, enc.pos_info[idx])
    THEN TRUE
    ELSE TooFew(option, enc)

\* `option[idx]` raises IndexError: pos_info is walked in ascending idx and an
\* idx past the end of option is reached before any `break`
Raises(option, enc) ==
    /\ ~ContainsMissing(option, enc)
    /\ \E idx \in DOMAIN enc.pos_info : idx >= Len(option)
    /\ \A idx \in DOMAIN enc.pos_info :
          idx < Len(option) => ~PositionBreaks(option, idx, enc.pos_info[idx])

\* filter() ends in an exception instead of updating the candidate set
FilterRaises(ws, w, v) == \E option \in ws : Raises(option, Encode(w, v))

\* Variant: the loop stops at the first illegal option it meets
IllegalWordsFirstOnly(ws, enc) ==
    LET illegal == {option \in ws : Illegal(option, enc)} IN
    IF illegal = {} THEN {} ELSE {CHOOSE option \in illegal : TRUE}

IllegalWords(ws, enc) == {option \in ws : Illegal(option, enc)}

\* Variant: the illegal words are taken from the whole word list
\* (`self._words = loaded - illegal_words`)
RemainingOfLoaded(ws, illegal_words) == LoadWords \ illegal_words

\* Variant: the last candidates are never taken away
\* (`if self._words - illegal_words: self._words -= illegal_words`)
RemainingUnlessEmpty(ws, illegal_words) ==
    IF ws \ illegal_words = {} THEN ws ELSE ws \ illegal_words

\* `self._words -= illegal_words`
Remaining(ws, illegal_words) == ws \ illegal_words

\* Wordle.filter(word, validation_string) on the candidate set ws
Filter(ws, w, v) == Remaining(ws, IllegalWords(ws, Encode(w, v)))

-----------------------------------------------------------------------------
(* Wordle.dump_options and what prompt() prints *)

Ord(c) == CHOOSE i \in 1..Len(ascii_lowercase) : ascii_lowercase[i] = c

\* a < b for Python strings of lowercase letters
RECURSIVE StrLess(_, _)
StrLess(a, b) ==
    IF b = <<>> THEN FALSE
    ELSE IF a = <<>> THEN TRUE
    ELSE IF Head(a) # Head(b) THEN Ord(Head(a)) < Ord(Head(b))
    ELSE StrLess(Tail(a), Tail(b))

\* sorted(ws)
RECURSIVE Sorted(_)
Sorted(ws) ==
    IF ws = {} THEN <<>>
    ELSE LET least == CHOOSE x \in ws : \A y \in ws : x = y \/ StrLess(x, y)
         IN  <<least>> \o Sorted(ws \ {least})

\* print(text)
Say(text) == [text |-> text, list |-> <<>>]

\* dump_options(): the candidates, sorted
DumpOptions(ws) == [text |-> "options", list |-> Sorted(ws)]

NoLegalWords == Say("No legal words remaining.  Input ^C to quit, or ^D to reset.")

\* The first lines of prompt(), before the first input("> ")
PromptHeader(ws) ==
    IF Cardinality(ws) = 0 THEN <<NoLegalWords>>
    ELSE IF Cardinality(ws) <= dump_threshold THEN <<DumpOptions(ws)>>
    ELSE <<>>

-----------------------------------------------------------------------------
(* What the user types *)

ListRequest == <<"?">>
HelpRequest == <<"?", "?">>

\* Every string of length n over the characters S
RECURSIVE Strings(_, _)
Strings(S, n) ==
    IF n = 0 THEN {<<>>}
    ELSE {Append(s, c) : s \in Strings(S, n - 1), c \in S}

Guesses ==
    { <<"c", "r", "a", "n", "e">>,
      <<"s", "a", "s", "s", "y">>,
      <<"b", "o", "a", "r", "d">> }

VerdictSymbols == {"g", "y", "."}

Verdicts == Strings(VerdictSymbols, word_len)

\* Variant: only a line with no verdict symbol at all is refused
HasNoVerdictSymbol(line) == CharSet(line) \cap VerdictSymbols = {}

\* len(set(validation) - set("gy.")) > 0
HasNonVerdictSymbol(line) == CharSet(line) \ VerdictSymbols # {}

\* Lines typed at the "> " prompt
WordInputs ==
    Guesses \cup
    { ListRequest, HelpRequest,
      <<"c", "a", "t">>,
      <<"C", "r", "a", "n", "e">>,
      <<".", ".", ".", ".", ".">> }

\* Lines typed at the "? " prompt
ValidationInputs ==
    Verdicts \cup
    { ListRequest, HelpRequest,
      <<"g", "y">>,
      <<"g", "x", ".", ".", ".">>,
      <<"c", "r", "a", "n", "e">> }

-----------------------------------------------------------------------------
(* The game's own scoring of a guess against the hidden target: Correct     *)
(* first, then Present for as many further occurrences as the target still  *)
(* has, else Absent.                                                        *)

ScoreAt(guess, target, i) ==
    LET c       == guess[i]
        greens  == Cardinality({j \in 1..Len(guess) : guess[j] = c /\ target[j] = c})
        earlier == Cardinality({j \in 1..(i - 1) : guess[j] = c /\ target[j] # c})
    IN  IF target[i] = c THEN "g"
        ELSE IF earlier < Count(target, c) - greens THEN "y"
        ELSE "."

Score(guess, target) == [i \in 1..Len(guess) |-> ScoreAt(guess, target, i)]

\* The history of 'g' marks after one more (guess, verdict) pair
LockedAfter(old, w, v) ==
    [idx \in DOMAIN old \cup {i \in 0..(Len(w) - 1) : v[i + 1] = "g"} |->
        IF idx \in DOMAIN old THEN old[idx] ELSE w[idx + 1]]

Contradicts(old, w, v) ==
    \E idx \in DOMAIN old : v[idx + 1] = "g" /\ w[idx + 1] # old[idx]

-----------------------------------------------------------------------------
(* The session: Wordle.__init__, Wordle.play, Wordle.prompt *)

NoFrame ==
    /\ fpc = "idle"
    /\ validation_string = <<>>
    /\ missing = {}
    /\ members = <<>>
    /\ pos_info = <<>>
    /\ before = {}
    /\ calls = 0

frame == <<fpc, validation_string, missing, members, pos_info, before, calls>>
history == <<honest, locked, contradicted>>

\* Wordle(): __init__ sets the fields and calls reset()
Init ==
    /\ words = LoadWords
    /\ state = "Constructed"
    /\ word = <<>>
    /\ out = <<>>
    /\ filter_calls = 0
    /\ honest = LoadWords
    /\ locked = <<>>
    /\ contradicted = FALSE
    /\ cycles = 0
    /\ NoFrame

\* play() is called: prompt() prints its header and waits at input("> ")
Play ==
    /\ state = "Constructed"
    /\ fpc = "idle"
    /\ state' = "AwaitingGuess"
    /\ out' = PromptHeader(words)
    /\ filter_calls' = 0
    /\ UNCHANGED <<words, word, history, cycles, frame>>

\* Variant: the length of the guess is not tested (lines 94-96 are lost)
WordInputOfAnyLength(line) ==
    /\ state = "AwaitingGuess"
    /\ filter_calls' = 0
    /\ UNCHANGED <<words, history, cycles, frame>>
    /\ IF line = ListRequest
       THEN /\ out' = <<DumpOptions(words)>>
            /\ UNCHANGED <<state, word>>
       ELSE IF line = HelpRequest
       THEN /\ out' = <<Say("dump_help")>>
            /\ UNCHANGED <<state, word>>
       ELSE IF HasNonLowercase(line)
       THEN /\ out' = <<Say("Guess must contain only lowercase letters"),
                        Say("help_msg")>>
            /\ UNCHANGED <<state, word>>
       ELSE /\ out' = <<>>
            /\ word' = line
            /\ state' = "AwaitingVerdict"

\* One pass of the `# Word input` loop: input("> ") returns line
WordInput(line) ==
    /\ state = "AwaitingGuess"
    /\ filter_calls' = 0
    /\ UNCHANGED <<words, history, cycles, frame>>
    /\ IF line = ListRequest
       THEN /\ out' = <<DumpOptions(words)>>
            /\ UNCHANGED <<state, word>>
       ELSE IF line = HelpRequest
       THEN /\ out' = <<Say("dump_help")>>
            /\ UNCHANGED <<state, word>>
       ELSE IF Len(line) # word_len
       THEN /\ out' = <<Say("Guess must be word_len characters"), Say("help_msg")>>
            /\ UNCHANGED <<state, word>>
       ELSE IF HasNonLowercase(line)
       THEN /\ out' = <<Say("Guess must contain only lowercase letters"),
                        Say("help_msg")>>
            /\ UNCHANGED <<state, word>>
       ELSE /\ out' = <<>>
            /\ word' = line
            /\ state' = "AwaitingVerdict"

\* Variant of the loop of play(): `while self.guesses < self.max_guesses`
WhileGuessesRemain == cycles + 1 < max_guesses

\* `while True` of play(): the loop goes on after every filter() call
WhileTrue == TRUE

\* The loop breaks: line is the validation string prompt() returns
Accepted(line) ==
    /\ line # ListRequest
    /\ word # HelpRequest
    /\ Len(line) = word_len
    /\ ~HasNonVerdictSymbol(line)

\* One pass of the `# Validation input` loop: input("? ") returns line. When the
\* loop breaks, prompt() returns, play() calls filter() and then prompt() again.
Validation(line) ==
    /\ state = "AwaitingVerdict"
    /\ UNCHANGED frame
    /\ IF line = ListRequest
       THEN /\ out' = <<Say("ok")>>
            /\ filter_calls' = 0
            /\ UNCHANGED <<words, state, word, history>>
       ELSE IF word = HelpRequest
       THEN /\ out' = <<Say("dump_help")>>
            /\ filter_calls' = 0
            /\ UNCHANGED <<words, state, word, history>>
       ELSE IF Len(line) # word_len
       THEN /\ out' = <<Say("Validation string must be word_len characters"),
                        Say("help_msg")>>
            /\ filter_calls' = 0
            /\ UNCHANGED <<words, state, word, history>>
       ELSE IF HasNonVerdictSymbol(line)
       THEN /\ out' = <<Say("Validation string must contain only 'g', 'y', or '.' characters"),
                        Say("help_msg")>>
            /\ filter_calls' = 0
            /\ UNCHANGED <<words, state, word, history>>
       ELSE /\ filter_calls' = 1
            /\ honest' = {target \in honest : Score(word, target) = line}
            /\ locked' = LockedAfter(locked, word, line)
            /\ contradicted' = (contradicted \/ Contradicts(locked, word, line))
            /\ word' = <<>>
            /\ IF FilterRaises(words, word, line)
               THEN /\ state' = "Crashed"
                    /\ out' = <<Say("IndexError")>>
                    /\ UNCHANGED words
               ELSE /\ words' = Filter(words, word, line)
                    /\ IF WhileTrue
                       THEN /\ state' = "AwaitingGuess"
                            /\ out' = PromptHeader(words')
                       ELSE /\ state' = "Terminated"
                            /\ out' = <<>>

\* The session, its guesses not counted
ValidationInput(line) ==
    /\ Validation(line)
    /\ UNCHANGED cycles

\* The long game: the same step, the filtered guesses counted up to MaxCycles
ValidationCounted(line) ==
    /\ Validation(line)
    /\ cycles' = IF Accepted(line) THEN Min(cycles + 1, MaxCycles) ELSE cycles

\* Variant: "Game reset." is printed but reset() is not called
EofWithoutReload ==
    /\ state \in {"AwaitingGuess", "AwaitingVerdict"}
    /\ word' = <<>>
    /\ state' = "AwaitingGuess"
    /\ out' = <<Say(""), Say("Game reset.")>> \o PromptHeader(words)
    /\ filter_calls' = 0
    /\ honest' = LoadWords
    /\ locked' = <<>>
    /\ contradicted' = FALSE
    /\ cycles' = 0
    /\ UNCHANGED <<words, frame>>

\* input() raises EOFError (^D) at either prompt: play() resets and prompts again
Eof ==
    /\ state \in {"AwaitingGuess", "AwaitingVerdict"}
    /\ words' = LoadWords
    /\ word' = <<>>
    /\ state' = "AwaitingGuess"
    /\ out' = <<Say(""), Say("Game reset.")>> \o PromptHeader(LoadWords)
    /\ filter_calls' = 0
    /\ honest' = LoadWords
    /\ locked' = <<>>
    /\ contradicted' = FALSE
    /\ cycles' = 0
    /\ UNCHANGED frame

InterruptReloads ==
    /\ state \in {"AwaitingGuess", "AwaitingVerdict"}
    /\ state' = "Terminated"
    /\ words' = LoadWords
    /\ word' = <<>>
    /\ out' = <<>>
    /\ filter_calls' = 0
    /\ UNCHANGED <<history, cycles, frame>>

\* input() raises KeyboardInterrupt (^C) at either prompt: play() returns
Interrupt ==
    /\ state \in {"AwaitingGuess", "AwaitingVerdict"}
    /\ state' = "Terminated"
    /\ word' = <<>>
    /\ out' = <<>>
    /\ filter_calls' = 0
    /\ UNCHANGED <<words, history, cycles, frame>>

Next ==
    \/ Play
    \/ \E line \in WordInputs : WordInput(line)
    \/ \E line \in ValidationInputs : ValidationInput(line)
    \/ Eof
    \/ Interrupt

Spec == Init /\ [][Next]_vars

-----------------------------------------------------------------------------
(* The long game: one guess, three verdicts, and the guesses counted *)

LongGameGuesses == { <<"c", "r", "a", "n", "e">>, ListRequest }

LongGameVerdicts ==
    { <<"g", ".", ".", ".", ".">>,
      <<".", "y", ".", ".", ".">>,
      <<"g", "g", "g", "g", "g">>,
      <<"g", "y">> }

NextLongGame ==
    \/ Play
    \/ \E line \in LongGameGuesses : WordInput(line)
    \/ \E line \in LongGameVerdicts : ValidationCounted(line)
    \/ Eof
    \/ Interrupt

SpecLongGame == Init /\ [][NextLongGame]_vars

-----------------------------------------------------------------------------
(* Wordle.filter called directly on an object, one loop at a time.  The     *)
(* object holds any of the candidate sets below; the arguments are any      *)
(* guess and any verdict string.                                            *)

CandidateSets ==
    {ws \in SUBSET LoadWords :
        \/ Cardinality(ws) <= 1
        \/ Cardinality(ws) >= Cardinality(LoadWords) - 1}

\* The locals of the running filter() call, as Encode returns them
encoding == [missing |-> missing, members |-> members, pos_info |-> pos_info]

session == <<state, out, filter_calls, honest, locked, contradicted, cycles>>

InitFilter ==
    /\ words \in CandidateSets
    /\ word \in Guesses
    /\ validation_string \in Verdicts
    /\ fpc = "called"
    /\ missing = {}
    /\ members = <<>>
    /\ pos_info = <<>>
    /\ before = words
    /\ calls = 1
    /\ state = "Constructed"
    /\ out = <<>>
    /\ filter_calls = 0
    /\ honest = LoadWords
    /\ locked = <<>>
    /\ contradicted = FALSE
    /\ cycles = 0

\* Lines 120-134: the first loop has run
FilterEncode ==
    /\ fpc = "called"
    /\ LET enc == Encode(word, validation_string) IN
           /\ missing' = enc.missing
           /\ members' = enc.members
           /\ pos_info' = enc.pos_info
    /\ fpc' = "encoded"
    /\ UNCHANGED <<words, word, validation_string, before, calls, session>>

\* Lines 135-160: the second loop has run and the candidate set is updated
FilterRemove ==
    /\ fpc = "encoded"
    /\ IF \E option \in words : Raises(option, encoding)
       THEN /\ fpc' = "raised"
            /\ UNCHANGED words
       ELSE /\ fpc' = "returned"
            /\ words' = Remaining(words, IllegalWords(words, encoding))
    /\ UNCHANGED <<word, validation_string, missing, members, pos_info,
                   before, calls, session>>

\* The caller calls filter() once more with the same arguments
FilterAgain ==
    /\ fpc = "returned"
    /\ calls < MaxCalls
    /\ fpc' = "called"
    /\ missing' = {}
    /\ members' = <<>>
    /\ pos_info' = <<>>
    /\ before' = words
    /\ calls' = calls + 1
    /\ UNCHANGED <<words, word, validation_string, session>>

NextFilter ==
    \/ FilterEncode
    \/ FilterRemove
    \/ FilterAgain

SpecFilter == InitFilter /\ [][NextFilter]_vars

-----------------------------------------------------------------------------
(* filter() called directly with arguments that prompt() would have refused: *)
(* filter() itself has no check of its arguments.                            *)

RawGuesses ==
    { <<"c", "r", "a", "n", "e">>,
      <<"c", "r", "a", "n">>,
      <<"c", "r", "a", "n", "e", "s">> }

RawVerdicts ==
    { <<"g", ".", ".", ".", ".">>,
      <<".", "y", ".", ".", ".">>,
      <<"g", "y">>,
      <<"x", ".", ".", ".", ".">>,
      <<".", ".", ".", ".", ".", "y">>,
      <<"g", ".", ".", ".", ".", ".">> }

\* len(word) == self.word_len, as prompt() tests it at line 95
HasWordLen(line) == Len(line) = word_len

InitFilterRaw ==
    /\ words \in CandidateSets
    /\ word \in RawGuesses
    /\ validation_string \in RawVerdicts
    /\ \/ ~HasWordLen(word)
       \/ ~HasWordLen(validation_string)
       \/ HasNonVerdictSymbol(validation_string)
    /\ fpc = "called"
    /\ missing = {}
    /\ members = <<>>
    /\ pos_info = <<>>
    /\ before = words
    /\ calls = 1
    /\ state = "Constructed"
    /\ out = <<>>
    /\ filter_calls = 0
    /\ honest = LoadWords
    /\ locked = <<>>
    /\ contradicted = FALSE
    /\ cycles = 0

NextFilterRaw ==
    \/ FilterEncode
    \/ FilterRemove
    \/ FilterAgain

SpecFilterRaw == InitFilterRaw /\ [][NextFilterRaw]_vars

-----------------------------------------------------------------------------
(* Properties *)

Crane == <<"c", "r", "a", "n", "e">>
Sassy == <<"s", "a", "s", "s", "y">>
Board == <<"b", "o", "a", "r", "d">>
Coast == <<"c", "o", "a", "s", "t">>
Could == <<"c", "o", "u", "l", "d">>
Sissy == <<"s", "i", "s", "s", "y">>
Basic == <<"b", "a", "s", "i", "c">>

\* The indices (1-based) of guess w to which verdict string v gives symbol t
Marked(w, v, t) == {i \in 1..Len(w) : v[i] = t}

\* The letters of w that v marks Correct or Present somewhere
Credited(w, v) == {w[i] : i \in Marked(w, v, "g") \cup Marked(w, v, "y")}

\* The letters of w that v marks Absent somewhere
MarkedAbsent(w, v) == {w[i] : i \in Marked(w, v, ".")}

FilterDone == fpc = "returned"

\* C1. Consistency: a loaded word against which every verdict since the load
\* was the true score of the guess is still a candidate after every filter call.
Consistency == honest \subseteq words

\* C2. Monotonic shrink: unless the step is a reset, the candidate set after a
\* step is a subset of the candidate set before it.
MonotonicShrink == [][Eof \/ words' \subseteq words]_vars

\* A filter call of the session has removed some candidates and kept others.
ShrunkByFilter ==
    /\ filter_calls = 1
    /\ words # {}
    /\ words # LoadWords

\* C3. Idempotence: a second filter call with the same guess and verdict, right
\* after the first, leaves the candidate set as the first call left it.
Idempotence == (FilterDone /\ calls >= 2) => words = before

\* The repeated call has returned, and the first call had removed candidates.
RepeatedAfterRemoval ==
    /\ FilterDone
    /\ calls >= 2
    /\ Cardinality(words) > 1
    /\ Cardinality(words) < Cardinality(LoadWords) - 1

\* C4. After the encoding pass the excluded letters are exactly the letters
\* marked Absent somewhere and Correct or Present nowhere in the guess, so no
\* excluded letter has a minimum count.
ExcludedExactlyUncredited ==
    fpc \in {"encoded", "returned"} =>
        /\ missing = MarkedAbsent(word, validation_string)
                        \ Credited(word, validation_string)
        /\ missing \cap DOMAIN members = {}

\* C5. Duplicate letters: when the guess has a letter Correct at i and Absent
\* at j, the letter is not excluded, and every surviving candidate has it
\* at i, does not have it at j, and contains it.
DuplicateLetterCorrectness ==
    FilterDone =>
        \A i \in Marked(word, validation_string, "g") :
            \A j \in Marked(word, validation_string, ".") :
                word[i] = word[j] =>
                    /\ word[i] \notin missing
                    /\ \A option \in words :
                          /\ option[i] = word[i]
                          /\ option[j] # word[i]
                          /\ Count(option, word[i]) >= 1

\* How many times v marks letter c of guess w Correct or Present
Tally(w, v, c) ==
    Cardinality({i \in Marked(w, v, "g") \cup Marked(w, v, "y") : w[i] = c})

\* The encoding holds a lock for every Correct index, a ban for every Present
\* index, nothing for an Absent index, and the tally of every credited letter.
LocksBansAndCounts ==
    /\ DOMAIN pos_info =
          {i - 1 : i \in Marked(word, validation_string, "g")
                           \cup Marked(word, validation_string, "y")}
    /\ \A i \in Marked(word, validation_string, "g") : pos_info[i - 1] = <<word[i]>>
    /\ \A i \in Marked(word, validation_string, "y") : pos_info[i - 1] = <<"-", word[i]>>
    /\ DOMAIN members = Credited(word, validation_string)
    /\ \A c \in DOMAIN members : members[c] = Tally(word, validation_string, c)

HasExcludedLetter(option) == \E i \in 1..Len(option) : option[i] \in missing

HasBannedLetter(option) ==
    \E i \in Marked(word, validation_string, "y") : option[i] = word[i]

LacksLockedLetter(option) ==
    \E i \in Marked(word, validation_string, "g") : option[i] # word[i]

BelowMinimumCount(option) ==
    \E c \in Credited(word, validation_string) :
        Count(option, c) < Tally(word, validation_string, c)

\* C6. filter removes a candidate if and only if it contains an excluded
\* letter, or has a banned letter at its banned index, or lacks a locked letter
\* at its locked index, or has fewer of a tallied letter than the tally.
RemovedIffRejected ==
    FilterDone =>
        /\ LocksBansAndCounts
        /\ words = {option \in before :
                        ~ \/ HasExcludedLetter(option)
                          \/ HasBannedLetter(option)
                          \/ LacksLockedLetter(option)
                          \/ BelowMinimumCount(option)}

\* A letter is locked at one index and banned at another, and a candidate
\* that has the letter at both indices, and no excluded letter, was removed.
LockAndBanBothEnforced ==
    /\ FilterDone
    /\ \E i \in Marked(word, validation_string, "g") :
          \E j \in Marked(word, validation_string, "y") :
              /\ word[i] = word[j]
              /\ \E option \in before \ words :
                    /\ option[i] = word[i]
                    /\ option[j] = word[i]
                    /\ ~HasExcludedLetter(option)

\* C7 as stated: after filter('crane', 'g....') every remaining candidate has
\* 'c' at index 0, and 'coast', if it was a candidate, still is.
CoastSurvivesCrane ==
    (FilterDone /\ word = Crane /\ validation_string = <<"g", ".", ".", ".", ".">>) =>
        /\ \A option \in words : option[1] = "c"
        /\ Coast \in before => Coast \in words

\* C7, amended: after filter('crane', 'g....') every remaining candidate has
\* 'c' at index 0 and none of 'r', 'a', 'n', 'e'; 'coast' is not a candidate
\* any more, and 'could', if it was a candidate, still is.
CraneLocksAndExcludes ==
    (FilterDone /\ word = Crane /\ validation_string = <<"g", ".", ".", ".", ".">>) =>
        /\ \A option \in words :
              /\ option[1] = "c"
              /\ CharSet(option) \cap {"r", "a", "n", "e"} = {}
        /\ Coast \notin words
        /\ Could \in before => Could \in words

CraneApplied ==
    /\ FilterDone
    /\ word = Crane
    /\ validation_string = <<"g", ".", ".", ".", ".">>
    /\ Coast \in before
    /\ Could \in words

\* C8. After a verdict that is Absent at every index, every letter of the
\* guess is excluded and the candidates left are exactly the earlier
\* candidates that contain no letter of the guess.
AllAbsentExcludesEveryLetter ==
    (FilterDone /\ Marked(word, validation_string, ".") = 1..Len(word)) =>
        /\ missing = CharSet(word)
        /\ words = {option \in before : CharSet(option) \cap CharSet(word) = {}}

BoardAllAbsentApplied ==
    /\ FilterDone
    /\ word = Board
    /\ validation_string = <<".", ".", ".", ".", ".">>
    /\ Coast \in before \ words
    /\ Sissy \in words

\* C9. Once two verdicts have marked different letters Correct at one index,
\* no candidate is left; the filter call that finds this returns normally, the
\* session says that no legal words remain and waits for the next guess, and
\* so does every later filter call.
ContradictionEmpties ==
    contradicted =>
        /\ words = {}
        /\ state # "Crashed"
        /\ filter_calls = 1 =>
              /\ state = "AwaitingGuess"
              /\ out = <<NoLegalWords>>

ContradictionFiltered ==
    /\ contradicted
    /\ filter_calls = 1
    /\ state = "AwaitingGuess"

WellFormedGuess(line) ==
    /\ Len(line) = word_len
    /\ \A i \in 1..Len(line) : line[i] \in CharSet(ascii_lowercase)

WellFormedVerdict(line) ==
    /\ Len(line) = word_len
    /\ \A i \in 1..Len(line) : line[i] \in {"g", "y", "."}

\* C10. A line that is no well-formed guess, typed at the guess prompt, and a
\* line that is no well-formed verdict, typed at the verdict prompt, leave the
\* prompt, the candidate set and the stored guess as they were, and filter is
\* not called.
IllFormedWordInputs == {line \in WordInputs : ~WellFormedGuess(line)}

IllFormedValidationInputs == {line \in ValidationInputs : ~WellFormedVerdict(line)}

InvalidInputIsLocal ==
    [][( \/ \E line \in IllFormedWordInputs : WordInput(line)
         \/ \E line \in IllFormedValidationInputs : ValidationInput(line) )
       => /\ state' = state
          /\ words' = words
          /\ word' = word
          /\ filter_calls' = 0]_vars

\* An ill-formed verdict has just been refused while a guess is stored and
\* earlier verdicts have already removed candidates.
VerdictRefused ==
    /\ state = "AwaitingVerdict"
    /\ word \in Guesses
    /\ words # LoadWords
    /\ Len(out) = 2
    /\ out[1] = Say("Validation string must contain only 'g', 'y', or '.' characters")

\* C11. filter is called only by the step that accepts a verdict while a
\* well-formed guess is stored; that step calls it once, with the stored guess
\* (the letters it locks are the stored guess's), and leaves the session at
\* the guess prompt with no stored guess; at the verdict prompt a well-formed
\* guess is always stored, and at the guess prompt none is.
GuessThenVerdict ==
    /\ [](state = "AwaitingVerdict" => WellFormedGuess(word))
    /\ [](state = "AwaitingGuess" => word = <<>>)
    /\ [](filter_calls \in {0, 1})
    /\ [][filter_calls' = 1 =>
            /\ state = "AwaitingVerdict"
            /\ WellFormedGuess(word)
            /\ state' = "AwaitingGuess"
            /\ word' = <<>>
            /\ words' \subseteq words
            /\ \A idx \in DOMAIN locked' \ DOMAIN locked :
                  locked'[idx] = word[idx + 1]]_vars

\* A guess and then a verdict were accepted, and filter removed candidates.
CycleCompleted ==
    /\ filter_calls = 1
    /\ state = "AwaitingGuess"
    /\ word = <<>>
    /\ DOMAIN locked # {}
    /\ words # LoadWords
    /\ words # {}

\* The last step printed "Game reset."
ResetAnnounced == Len(out) >= 2 /\ out[2] = Say("Game reset.")

\* C12. The step that announces a reset, at the guess prompt or at the verdict
\* prompt, leaves the whole loaded word list as the candidate set, whatever
\* was filtered before, calls no filter, drops the stored guess and leaves the
\* session at the guess prompt.
ResetRestores ==
    [][ResetAnnounced' =>
          /\ state \in {"AwaitingGuess", "AwaitingVerdict"}
          /\ words' = LoadWords
          /\ word' = <<>>
          /\ state' = "AwaitingGuess"
          /\ filter_calls' = 0]_vars

\* A reset has just been handled.
ResetHandled ==
    /\ ResetAnnounced
    /\ words = LoadWords
    /\ word = <<>>
    /\ state = "AwaitingGuess"

\* C13. The step into Terminated starts at the guess prompt or at the verdict
\* prompt, calls no filter and leaves the candidate set as it was; once the
\* session is Terminated nothing changes any more.
TerminateIsFinal ==
    [][/\ state # "Terminated"
       /\ state' = "Terminated" =>
            /\ state \in {"AwaitingGuess", "AwaitingVerdict"}
            /\ words' = words
            /\ filter_calls' = 0]_vars

TerminatedAfterFiltering ==
    /\ state = "Terminated" /\ word = <<>>
    /\ words # LoadWords /\ words # {}

\* C14. In every reachable state every candidate has exactly word_len
\* characters and only lowercase letters a-z, although the word list holds
\* capitalised, punctuated, padded and short lines.
CandidatesWellFormed ==
    \A candidate \in words :
        /\ Len(candidate) = word_len
        /\ \A i \in 1..Len(candidate) : candidate[i] \in CharSet(ascii_lowercase)

NoisyListFiltered ==
    /\ \E l \in Lines : Len(Strip(l)) # word_len
    /\ \E l \in Lines : HasNonLowercase(Strip(l))
    /\ \E l \in Lines : Len(l) > word_len + 1 /\ Strip(l) \in words
    /\ filter_calls = 1
    /\ words # {}
    /\ words # LoadWords

\* C15. A filter call whose guess or verdict has not exactly word_len
\* characters, or whose verdict holds a symbol other than 'g', 'y' and '.',
\* fails: it never returns normally, and the candidate set stays as the call
\* found it.
EncoderPreconditions ==
    (\/ ~HasWordLen(word)
     \/ ~HasWordLen(validation_string)
     \/ HasNonVerdictSymbol(validation_string)) =>
        /\ fpc # "returned"
        /\ calls = 1 => words = before

\* C16. Submitting "?" at the guess prompt or at the verdict prompt prints the
\* current candidate list and changes neither the prompt the session is at,
\* nor the stored guess, nor the candidate set.
ListRequestAtAnyTime ==
    [][(\/ WordInput(ListRequest)
        \/ ValidationInput(ListRequest)) =>
            /\ out' = <<DumpOptions(words)>>
            /\ state' = state
            /\ word' = word
            /\ words' = words]_vars

\* C17. The number of completed guess/verdict cycles never stops the game:
\* at the guess prompt a guess is accepted whatever the count, also beyond
\* max_guesses; the step that completes a cycle leads back to the guess
\* prompt; and a step into Terminated is always the interrupt.
MaxGuessesAdvisory ==
    /\ [](state = "AwaitingGuess" => ENABLED WordInput(Crane))
    /\ [][cycles' > cycles => state' = "AwaitingGuess"]_vars
    /\ [][state' = "Terminated" => Interrupt]_vars

GuessBeyondMaxGuesses ==
    /\ cycles > max_guesses
    /\ state = "AwaitingVerdict"
    /\ word = Crane

\* The verdicts of the other pair q of an exchange
ExchangedVerdicts ==
    { <<".", ".", ".", ".", ".">>,
      <<"g", "g", "g", "g", "g">>,
      <<"g", ".", ".", ".", ".">>,
      <<".", "y", ".", ".", ".">>,
      <<".", ".", "g", ".", ".">>,
      <<"y", ".", ".", "y", ".">>,
      <<"g", "g", ".", "g", "g">>,
      <<".", ".", ".", "g", ".">> }

\* C18. Two filter calls commute: when filter has returned for the pair
\* p = (word, validation_string) on the candidate set `before`, applying any
\* well-formed pair q next leaves the same set as applying q to `before`
\* first and p after it.
OrderIndependence ==
    (FilterDone /\ calls = 1) =>
        \A qw \in Guesses : \A qv \in ExchangedVerdicts :
            Filter(words, qw, qv) =
                Filter(Filter(before, qw, qv), word, validation_string)

\* Both pairs remove candidates, and some candidates survive both
ExchangeMatters ==
    /\ FilterDone /\ calls = 1
    /\ words # before
    /\ \E qw \in Guesses : \E qv \in ExchangedVerdicts :
          /\ qw # word
          /\ Filter(words, qw, qv) # words
          /\ Filter(words, qw, qv) # {}

AllCorrect == <<"g", "g", "g", "g", "g">>

\* C19. After filter has returned for a guess whose verdict is not Correct at
\* every position, the guess itself is no candidate any more.
TriedWordEliminated ==
    (FilterDone /\ validation_string # AllCorrect) => word \notin words

\* C20. After filter has returned for a guess whose verdict is Correct at
\* every position, the candidate set is the guess alone if the guess was a
\* candidate before the call, and is empty otherwise.
AllCorrectPinsAnswer ==
    (FilterDone /\ validation_string = AllCorrect) =>
        words = IF word \in before THEN {word} ELSE {}

SassyPinned ==
    /\ FilterDone /\ calls = 1
    /\ validation_string = AllCorrect
    /\ word = Sassy
    /\ Cardinality(before) > 1
    /\ words = {Sassy}

====
